---------------------------- MODULE Spec2Model ----------------------------
(***************************************************************************)
(* Model of the PDF document processor (src/pdf-document-processor):       *)
(* the identifier extractor, the date resolver, the supplementary          *)
(* resolver, the PDF merge primitive and the DocumentProcessor run loop.   *)
(*                                                                         *)
(* Text is modelled character by character: a string is a sequence of      *)
(* one-character strings.  A PDF is the sequence of its pages; a page is   *)
(* the pair <<path of the file it was created in, index>>.  An optional    *)
(* value (Python's None or a value) is a set with no or one element.       *)
(***************************************************************************)
EXTENDS Integers, Sequences, FiniteSets, TLC

VARIABLES
    \* ---- the file system and the operator's configuration
    config,      \* ProcessorConfig
    dirs,        \* the folders that exist
    fs,          \* path -> entry, for the paths that exist
    canMkdir,    \* whether creating the output folder can succeed
    rev,         \* the order in which the file system enumerates a folder
    \* ---- DocumentProcessor
    stats,       \* self.stats
    pc,          \* "none" | "idle" | "loop" | "returned"
    todo,        \* the part of source_files the loop has not reached yet
    result,      \* what the last call of process_documents returned
    runs,        \* calls of process_documents made so far
    \* ---- what the current call has done (history)
    fresh,       \* the call began on a newly constructed processor
    stats0,      \* self.stats when the call was entered
    validated,   \* what config.validate() answered in this call
    enumerated,  \* source_files as glob returned it in this call
    outcome,     \* source path -> terminal outcome, in this call
    merges,      \* source path -> calls of merge_pdf_files for it
    plans,       \* source path -> files_to_merge handed to merge_pdf_files
    applied,     \* source path -> the pages arguments handed to the PDF writer
    written,     \* output path -> pages written by this call
    prev,        \* the previous call's summary (optional)
    \* ---- one call of a pure function
    fn_arg, fn_ret, fn_pc

vars == <<config, dirs, fs, canMkdir, rev, stats, pc, todo, result, runs,
          fresh, stats0, validated, enumerated, outcome, merges, plans,
          applied, written, prev, fn_arg, fn_ret, fn_pc>>

pipeVars == <<config, dirs, fs, canMkdir, rev, stats, pc, todo, result, runs,
              fresh, stats0, validated, enumerated, outcome, merges, plans,
              applied, written, prev>>

fnVars == <<fn_arg, fn_ret, fn_pc>>

-----------------------------------------------------------------------------
(* Bounds of the model *)

\* longest filename handed to extract_id_from_filename on its own
MaxNameLen == 4
\* longest identifier handed to find_matching_files on its own
MaxIdLen == 2
\* most entries of a folder searched by find_matching_files on its own
MaxListing == 2
\* most pages of a PDF
MaxPages == 3
\* file dates are 1..MaxDate; the cutoff is MaxDate - 1, today is MaxDate
MaxDate == 3
\* most regular files under the source folder at the start
MaxFiles == 2
\* most calls of process_documents
MaxRuns == 2

-----------------------------------------------------------------------------
(* Strings *)

None == {}
Some(x) == {x}
The(o) == CHOOSE x \in o : TRUE

\* the characters of the model in code point order (Python compares str by
\* code point)
CodeOrder == <<"\t", " ", "*", ".", "1", "2", "7", "?", "A", "B", "\\",
               "a", "b", "d", "f", "p", "r", "s", "t", "x">>

Ord(c) == CHOOSE i \in 1..Len(CodeOrder) : CodeOrder[i] = c

Letters == {"A", "B", "a", "b", "d", "f", "p", "r", "s", "t", "x"}
Digits == {"1", "2", "7"}
Whitespace == {" ", "\t"}

RECURSIVE StrLess(_, _)
\* s < t for two str
StrLess(s, t) ==
    IF t = <<>> THEN FALSE
    ELSE IF s = <<>> THEN TRUE
    ELSE IF Head(s) = Head(t) THEN StrLess(Tail(s), Tail(t))
    ELSE Ord(Head(s)) < Ord(Head(t))

StartsWith(s, p) == Len(s) >= Len(p) /\ SubSeq(s, 1, Len(p)) = p
EndsWith(s, p) == Len(s) >= Len(p) /\ SubSeq(s, Len(s) - Len(p) + 1, Len(s)) = p

RECURSIVE LStrip(_)
LStrip(s) ==
    IF s # <<>> /\ Head(s) \in Whitespace THEN LStrip(Tail(s)) ELSE s

RECURSIVE RStrip(_)
RStrip(s) ==
    IF s # <<>> /\ s[Len(s)] \in Whitespace
    THEN RStrip(SubSeq(s, 1, Len(s) - 1)) ELSE s

\* str.strip()
Strip(s) == RStrip(LStrip(s))

RECURSIVE SplitFirst(_)
\* s.split(" ", 1)[0]: the part before the first space, the whole of s when
\* it holds no space
SplitFirst(s) ==
    IF s = <<>> \/ Head(s) = " " THEN <<>>
    ELSE <<Head(s)>> \o SplitFirst(Tail(s))

\* all strings over alphabet of length 0..n
RECURSIVE StringsUpTo(_, _)
StringsUpTo(alphabet, n) ==
    IF n = 0 THEN {<<>>}
    ELSE LET shorter == StringsUpTo(alphabet, n - 1)
         IN  shorter \cup {<<c>> \o s : c \in alphabet,
                                         s \in {t \in shorter : Len(t) = n - 1}}

-----------------------------------------------------------------------------
(* file_utils.py: extract_id_from_filename *)

DefaultIdPattern == "^[A-Za-z]\\d+$"
UnanchoredIdPattern == "[A-Za-z]\\d+"
IdPatterns == {DefaultIdPattern, UnanchoredIdPattern}

RECURSIVE DigitRun(_)
\* the length of the longest run of digits s starts with
DigitRun(s) ==
    IF s # <<>> /\ Head(s) \in Digits THEN 1 + DigitRun(Tail(s)) ELSE 0

\* a variant that asks for a match of the whole of s (re.fullmatch)
ReFullMatch(pattern, s) ==
    /\ s # <<>>
    /\ Head(s) \in Letters
    /\ DigitRun(Tail(s)) >= 1
    /\ DigitRun(Tail(s)) = Len(s) - 1

\* re.match(pattern, s, re.IGNORECASE) for the two patterns of the model:
\* one letter and one or more digits, matched at the start of s; "$" asks
\* that nothing follows (s is stripped, so it ends in no newline)
ReMatch(pattern, s) ==
    /\ s # <<>>
    /\ Head(s) \in Letters
    /\ DigitRun(Tail(s)) >= 1
    /\ (pattern = DefaultIdPattern => DigitRun(Tail(s)) = Len(s) - 1)

\* a variant that does not split: the whole filename is the candidate
extract_id_unsplit(filename, pattern) ==
    IF filename = <<>> THEN None
    ELSE IF ReMatch(pattern, Strip(filename)) THEN Some(Strip(filename))
    ELSE None

extract_id_from_filename(filename, pattern) ==
    IF filename = <<>> THEN None
    ELSE LET clean_filename == Strip(filename)
             potential_id == Strip(SplitFirst(clean_filename))
         IN  IF ReMatch(pattern, potential_id) THEN Some(potential_id)
             ELSE None

-----------------------------------------------------------------------------
(* file_utils.py: find_matching_files *)

ReSpecial == {"*", ".", "?", "\\", " ", "\t"}

RECURSIVE re_escape(_)
\* re.escape: a backslash before every character special in a regex
re_escape(s) ==
    IF s = <<>> THEN <<>>
    ELSE (IF Head(s) \in ReSpecial THEN <<"\\", Head(s)>> ELSE <<Head(s)>>)
         \o re_escape(Tail(s))

RECURSIVE GlobMatch(_, _)
\* Path.glob on one path component (fnmatch): "*" is any run of characters,
\* "?" any one character, every other character stands for itself, the
\* backslash too (no pattern of the model holds "[")
GlobMatch(pat, name) ==
    IF pat = <<>> THEN name = <<>>
    ELSE IF Head(pat) = "*"
         THEN GlobMatch(Tail(pat), name)
              \/ (name # <<>> /\ GlobMatch(pat, Tail(name)))
    ELSE IF Head(pat) = "?"
         THEN name # <<>> /\ GlobMatch(Tail(pat), Tail(name))
    ELSE name # <<>> /\ Head(name) = Head(pat)
         /\ GlobMatch(Tail(pat), Tail(name))

RECURSIVE SortNames(_)
\* list.sort() of the paths of one folder: ascending by name
SortNames(S) ==
    IF S = {} THEN <<>>
    ELSE LET least == CHOOSE n \in S : \A m \in S \ {n} : StrLess(n, m)
         IN  <<least>> \o SortNames(S \ {least})

PdfExt == <<".", "p", "d", "f">>

\* the pattern find_matching_files hands to folder.glob
MatchPattern(id_value, extension) ==
    re_escape(id_value) \o <<" ", "*">> \o extension

\* folder: optional listing (None: the folder does not exist), the names of
\* its entries otherwise
find_matching_files(folder, id_value, extension) ==
    IF folder = None THEN <<>>
    ELSE IF id_value = <<>> THEN <<>>
    ELSE SortNames({n \in The(folder) :
                       GlobMatch(MatchPattern(id_value, extension), n)})

-----------------------------------------------------------------------------
(* pdf_operations.py: merge_pdf_files, the handling of one entry *)

\* a variant that clamps a negative resolved end as well, to all the pages
append_pages_clamp_negative(pages, total_pages) ==
    LET start_page == pages[1]
        end_page == IF pages[2] < 0 THEN total_pages + pages[2] ELSE pages[2]
    IN  IF total_pages > 0
        THEN IF end_page >= total_pages \/ end_page < 0
             THEN Some(<<start_page, total_pages>>)
             ELSE Some(pages)
        ELSE None

\* the pages argument of merger.append for an entry with a page range
\* (None: the entry has no pages and is skipped)
append_pages(pages, total_pages) ==
    LET start_page == pages[1]
        end_page == IF pages[2] < 0 THEN total_pages + pages[2] ELSE pages[2]
    IN  IF total_pages > 0
        THEN IF end_page >= total_pages
             THEN Some(<<start_page, total_pages - 1>>)
             ELSE Some(pages)
        ELSE None

\* pypdf's PdfWriter.append(pages=(start, stop)): the pages range(start, stop)
\* of the source, as indices; an index the source does not have raises
WriterIndices(range) ==
    [i \in 1..(IF range[2] > range[1] THEN range[2] - range[1] ELSE 0)
        |-> range[1] + i - 1]


-----------------------------------------------------------------------------
(* The file system *)

\* a path is <<folder, name>>; "sub" is a subfolder of "src"
N_A1r == <<"A", "1", " ", "r", ".", "p", "d", "f">>
N_bad == <<"b", "a", "d", ".", "p", "d", "f">>
N_dir == <<"d", ".", "p", "d", "f">>
N_A1a == <<"A", "1", " ", "a", ".", "p", "d", "f">>
N_A1s == <<"A", "1", " ", "s", ".", "p", "d", "f">>
N_A1t == <<"A", "1", " ", "t", ".", "p", "d", "f">>
N_app == <<"a", "p", ".", "p", "d", "f">>

FolderOrder == <<"app", "out", "src", "sub", "supp">>
FolderRank(f) == CHOOSE i \in 1..Len(FolderOrder) : FolderOrder[i] = f

Today == MaxDate

\* the pages a file created with n pages at path p holds
NewPages(p, n) == [i \in 1..n |-> <<p, i>>]

\* date 0: the modification time cannot be read or converted
File(p, n, date, ok) ==
    [kind |-> "file", date |-> date, pages |-> NewPages(p, n), ok |-> ok]
Dir == [kind |-> "dir", date |-> Today, pages |-> <<>>, ok |-> FALSE]

\* Path.exists(), Path.is_file()
Exists(f, p) == p \in DOMAIN f
IsFile(f, p) == p \in DOMAIN f /\ f[p].kind = "file"

\* the names of the entries of a folder: None when the folder does not exist
Listing(folder) ==
    IF folder \in dirs
    THEN Some({p[2] : p \in {q \in DOMAIN fs : q[1] = folder}})
    ELSE None

PathLess(p, q) ==
    IF p[1] # q[1] THEN FolderRank(p[1]) < FolderRank(q[1])
    ELSE StrLess(p[2], q[2])

RECURSIVE EnumOrder(_)
\* the order in which the file system yields a set of paths: not sorted by
\* the program, but the same for the same file system
EnumOrder(S) ==
    IF S = {} THEN <<>>
    ELSE LET first == CHOOSE p \in S : \A q \in S \ {p} :
                          IF rev THEN PathLess(q, p) ELSE PathLess(p, q)
         IN  <<first>> \o EnumOrder(S \ {first})

Range(s) == {s[i] : i \in 1..Len(s)}

-----------------------------------------------------------------------------
(* config.py: ProcessorConfig *)

StarPdf == <<"*">> \o PdfExt

\* a variant of validate that does not check the appendix
validate_no_appendix_check ==
    IF config.source_folder \notin dirs THEN [ok |-> FALSE, dirs |-> dirs]
    ELSE IF config.supplementary_folder # None
            /\ The(config.supplementary_folder) \notin dirs
         THEN [ok |-> FALSE, dirs |-> dirs]
    ELSE IF config.output_folder \notin dirs
         THEN IF canMkdir
              THEN [ok |-> TRUE, dirs |-> dirs \cup {config.output_folder}]
              ELSE [ok |-> FALSE, dirs |-> dirs]
    ELSE [ok |-> TRUE, dirs |-> dirs]

\* ProcessorConfig.validate(): its answer and the folders that exist after it
validate ==
    IF config.source_folder \notin dirs THEN [ok |-> FALSE, dirs |-> dirs]
    ELSE IF config.supplementary_folder # None
            /\ The(config.supplementary_folder) \notin dirs
         THEN [ok |-> FALSE, dirs |-> dirs]
    ELSE IF config.appendix_file # None
            /\ ~IsFile(fs, The(config.appendix_file))
         THEN [ok |-> FALSE, dirs |-> dirs]
    ELSE IF config.output_folder \notin dirs
         THEN IF canMkdir
              THEN [ok |-> TRUE, dirs |-> dirs \cup {config.output_folder}]
              ELSE [ok |-> FALSE, dirs |-> dirs]
    ELSE [ok |-> TRUE, dirs |-> dirs]

-----------------------------------------------------------------------------
(* file_utils.py: get_file_date *)

get_file_date(p) ==
    IF ~Exists(fs, p) THEN None
    ELSE IF fs[p].date = 0 THEN None
    ELSE Some(fs[p].date)

-----------------------------------------------------------------------------
(* pdf_operations.py: merge_pdf_files *)

\* what one entry of files_to_merge adds: ok (no exception), the pages
\* appended, the pages arguments handed to merger.append
MergeEntry(entry) ==
    LET path == entry.path
        skip == [ok |-> TRUE, pages |-> <<>>, args |-> <<>>]
        fail == [ok |-> FALSE, pages |-> <<>>, args |-> <<>>]
    IN  IF ~Exists(fs, path) THEN skip
        ELSE IF ~fs[path].ok THEN fail
        ELSE IF entry.pages # None
        THEN LET total_pages == Len(fs[path].pages)
                 arg == append_pages(The(entry.pages), total_pages)
             IN  IF arg = None THEN skip
                 ELSE LET idx == WriterIndices(The(arg))
                      IN  IF \E i \in 1..Len(idx) : idx[i] >= total_pages
                          THEN fail
                          ELSE [ok |-> TRUE,
                                pages |-> [i \in 1..Len(idx) |->
                                              fs[path].pages[idx[i] + 1]],
                                args |-> <<The(arg)>>]
        ELSE [ok |-> TRUE, pages |-> fs[path].pages, args |-> <<>>]

RECURSIVE MergeEntries(_)
\* the loop over files_to_merge; an exception ends it
MergeEntries(entries) ==
    IF entries = <<>> THEN [ok |-> TRUE, pages |-> <<>>, args |-> <<>>]
    ELSE LET one == MergeEntry(Head(entries))
         IN  IF ~one.ok THEN one
             ELSE LET rest == MergeEntries(Tail(entries))
                  IN  [ok |-> rest.ok,
                       pages |-> one.pages \o rest.pages,
                       args |-> one.args \o rest.args]

\* a variant that does not overwrite: with an output file in place it fails
merge_pdf_files_keep_existing(files_to_merge, output_path) ==
    IF files_to_merge = <<>> \/ Exists(fs, output_path)
    THEN [success |-> FALSE, pages |-> <<>>, args |-> <<>>]
    ELSE LET m == MergeEntries(files_to_merge)
         IN  IF ~m.ok THEN [success |-> FALSE, pages |-> <<>>, args |-> m.args]
             ELSE [success |-> TRUE, pages |-> m.pages, args |-> m.args]

\* merge_pdf_files(files_to_merge, output_path): success, the pages written
\* to output_path on success, the pages arguments handed to the writer
merge_pdf_files(files_to_merge, output_path) ==
    IF files_to_merge = <<>>
    THEN [success |-> FALSE, pages |-> <<>>, args |-> <<>>]
    ELSE LET m == MergeEntries(files_to_merge)
         IN  IF ~m.ok THEN [success |-> FALSE, pages |-> <<>>, args |-> m.args]
             ELSE IF Exists(fs, output_path) /\ ~IsFile(fs, output_path)
             THEN [success |-> FALSE, pages |-> <<>>, args |-> m.args]
             ELSE [success |-> TRUE, pages |-> m.pages, args |-> m.args]

-----------------------------------------------------------------------------
(* document_processor.py: DocumentProcessor *)

ZeroStats == [processed |-> 0, skipped_format |-> 0, skipped_date |-> 0,
              errors |-> 0]

Total(s) == s.processed + s.skipped_format + s.skipped_date + s.errors

\* a variant that skips a file dated on the cutoff day too
date_skips_inclusive(file_date, start_date) ==
    file_date # None /\ The(file_date) <= start_date

\* line 70: file_date and file_date < self.config.start_date
date_skips(file_date, start_date) ==
    file_date # None /\ The(file_date) < start_date

\* lines 47-53: source_files
source_files ==
    LET scanned == IF config.recursive THEN {"src", "sub"} ELSE {"src"}
    IN  EnumOrder({p \in DOMAIN fs :
                      /\ p[1] \in scanned
                      /\ p[1] \in dirs
                      /\ GlobMatch(config.file_pattern, p[2])})

\* lines 108-123: supp_path (optional)
supp_path_of(doc_id) ==
    IF config.supplementary_folder = None THEN None
    ELSE LET folder == The(config.supplementary_folder)
             matching_files == find_matching_files(Listing(folder), doc_id, PdfExt)
         IN  IF matching_files = <<>> THEN None
             ELSE Some(<<folder, matching_files[1]>>)

\* a variant that writes the output next to the source document
output_path_beside_source(source_path) == <<source_path[1], source_path[2]>>

\* line 126
output_path_of(source_path) == <<config.output_folder, source_path[2]>>

\* a variant that puts the appendix before the supplementary file
files_to_merge_appendix_first(source_path, doc_id) ==
    LET supp_path == supp_path_of(doc_id)
    IN  <<[path |-> source_path, pages |-> None]>>
        \o (IF config.appendix_file # None
               /\ IsFile(fs, The(config.appendix_file))
            THEN <<[path |-> The(config.appendix_file), pages |-> None]>>
            ELSE <<>>)
        \o (IF supp_path # None /\ IsFile(fs, The(supp_path))
            THEN <<[path |-> The(supp_path), pages |-> Some(<<0, -2>>)]>>
            ELSE <<>>)

\* lines 133-157: files_to_merge
files_to_merge_of(source_path, doc_id) ==
    LET supp_path == supp_path_of(doc_id)
    IN  <<[path |-> source_path, pages |-> None]>>
        \o (IF supp_path # None /\ IsFile(fs, The(supp_path))
            THEN <<[path |-> The(supp_path), pages |-> Some(<<0, -2>>)]>>
            ELSE <<>>)
        \o (IF config.appendix_file # None
               /\ IsFile(fs, The(config.appendix_file))
            THEN <<[path |-> The(config.appendix_file), pages |-> None]>>
            ELSE <<>>)

\* a variant that counts a failed merge as processed, not as an error
count_merge_swapped(s, success) == [s EXCEPT !.processed = @ + 1]

\* a variant that counts a failed merge as processed as well
count_merge_both(s, success) ==
    IF success THEN [s EXCEPT !.processed = @ + 1]
    ELSE [s EXCEPT !.errors = @ + 1, !.processed = @ + 1]

\* a variant that assigns 1 where the code adds 1
count_merge_assign(s, success) ==
    IF success THEN [s EXCEPT !.processed = 1]
    ELSE [s EXCEPT !.errors = 1]

\* lines 162-169
count_merge(s, success) ==
    IF success THEN [s EXCEPT !.processed = @ + 1]
    ELSE [s EXCEPT !.errors = @ + 1]

\* f with x appended to what it holds for key k
Noted(f, k, x) ==
    [j \in DOMAIN f \cup {k} |->
        IF j = k THEN (IF k \in DOMAIN f THEN Append(f[k], x) ELSE <<x>>)
        ELSE f[j]]

\* f with value x for key k
With(f, k, x) == [j \in DOMAIN f \cup {k} |-> IF j = k THEN x ELSE f[j]]

\* the per-call history, cleared when process_documents is entered
NoHistory ==
    /\ outcome' = <<>>
    /\ merges' = <<>>
    /\ plans' = <<>>
    /\ applied' = <<>>
    /\ written' = <<>>

Minus(a, b) ==
    [processed |-> a.processed - b.processed,
     skipped_format |-> a.skipped_format - b.skipped_format,
     skipped_date |-> a.skipped_date - b.skipped_date,
     errors |-> a.errors - b.errors]

\* DocumentProcessor.__init__ (lines 18-31)
Construct ==
    /\ pc \in {"none", "returned"}
    /\ runs < MaxRuns
    /\ stats' = ZeroStats
    /\ pc' = "idle"
    /\ UNCHANGED <<config, dirs, fs, canMkdir, rev, todo, result, runs, fresh,
                   stats0, validated, enumerated, outcome, merges, plans,
                   applied, written, prev>>
    /\ UNCHANGED fnVars

\* process_documents up to the loop (lines 33-61): validation and the scan
Call ==
    /\ pc \in {"idle", "returned"}
    /\ runs < MaxRuns
    /\ runs' = runs + 1
    /\ fresh' = (pc = "idle")
    /\ stats0' = stats
    /\ prev' = IF runs = 0 THEN None
               ELSE Some([written |-> written, counts |-> Minus(result, stats0),
                          result |-> result, fresh |-> fresh])
    /\ NoHistory
    /\ LET v == validate
       IN  /\ validated' = v.ok
           /\ dirs' = v.dirs
           /\ IF ~v.ok
              THEN /\ pc' = "returned"
                   /\ result' = stats
                   /\ enumerated' = <<>>
                   /\ todo' = <<>>
              ELSE IF source_files = <<>>
              THEN /\ pc' = "returned"
                   /\ result' = stats
                   /\ enumerated' = <<>>
                   /\ todo' = <<>>
              ELSE /\ pc' = "loop"
                   /\ result' = result
                   /\ enumerated' = source_files
                   /\ todo' = source_files
    /\ UNCHANGED <<config, fs, canMkdir, rev, stats>>
    /\ UNCHANGED fnVars

\* one iteration of the loop (lines 63-83), _process_single_document
\* (lines 88-169) and merge_pdf_files included
Step ==
    /\ pc = "loop"
    /\ todo # <<>>
    /\ todo' = Tail(todo)
    /\ LET source_path == Head(todo)
           file_date == get_file_date(source_path)
           doc_id == extract_id_from_filename(source_path[2], config.id_pattern)
       IN  IF ~IsFile(fs, source_path)
           THEN UNCHANGED <<stats, fs, outcome, merges, plans, applied, written>>
           ELSE IF date_skips(file_date, config.start_date)
           THEN /\ stats' = [stats EXCEPT !.skipped_date = @ + 1]
                /\ outcome' = Noted(outcome, source_path, "SkippedByDate")
                /\ UNCHANGED <<fs, merges, plans, applied, written>>
           ELSE IF doc_id = None
           THEN /\ stats' = [stats EXCEPT !.skipped_format = @ + 1]
                /\ outcome' = Noted(outcome, source_path, "SkippedByFormat")
                /\ UNCHANGED <<fs, merges, plans, applied, written>>
           ELSE LET files_to_merge == files_to_merge_of(source_path, The(doc_id))
                    output_path == output_path_of(source_path)
                    m == merge_pdf_files(files_to_merge, output_path)
                IN  /\ stats' = count_merge(stats, m.success)
                    /\ outcome' = Noted(outcome, source_path,
                                        IF m.success THEN "Processed" ELSE "Errored")
                    /\ merges' = Noted(merges, source_path, output_path)
                    /\ plans' = With(plans, source_path, files_to_merge)
                    /\ applied' = With(applied, source_path, m.args)
                    /\ IF m.success
                       THEN /\ fs' = With(fs, output_path,
                                          [kind |-> "file", date |-> Today,
                                           pages |-> m.pages, ok |-> TRUE])
                            /\ written' = With(written, output_path, m.pages)
                       ELSE UNCHANGED <<fs, written>>
    /\ UNCHANGED <<config, dirs, canMkdir, rev, pc, result, runs, fresh, stats0,
                   validated, enumerated, prev>>
    /\ UNCHANGED fnVars

\* the end of the loop (lines 85-86)
Return ==
    /\ pc = "loop"
    /\ todo = <<>>
    /\ pc' = "returned"
    /\ result' = stats
    /\ UNCHANGED <<config, dirs, fs, canMkdir, rev, stats, todo, runs, fresh,
                   stats0, validated, enumerated, outcome, merges, plans,
                   applied, written, prev>>
    /\ UNCHANGED fnVars

-----------------------------------------------------------------------------
(* The file systems and configurations a run can start from *)

P_s1 == <<"src", N_A1r>>
P_s2 == <<"src", N_bad>>
P_s3 == <<"sub", N_A1r>>
P_dir == <<"src", N_dir>>
P_app == <<"app", N_app>>
P_A1a == <<"supp", N_A1a>>
P_A1s == <<"supp", N_A1s>>
P_A1t == <<"supp", N_A1t>>
P_taken == <<"out", N_A1r>>

\* a set of <<path, entry>> pairs as a function
FsOf(pairs) ==
    [p \in {x[1] : x \in pairs} |-> (CHOOSE x \in pairs : x[1] = p)[2]]

\* "A1 r.pdf" in the source folder: absent, or with any date, or a file
\* of today that no PDF reader can read
S1Opts ==
    {{}} \cup {{<<P_s1, File(P_s1, 1, d, TRUE)>>} : d \in 0..MaxDate}
         \cup {{<<P_s1, File(P_s1, 1, Today, FALSE)>>}}
\* "bad.pdf" in the source folder
S2Opts == {{}} \cup {{<<P_s2, File(P_s2, 1, d, TRUE)>>} : d \in 0..MaxDate}
\* "A1 r.pdf" in the subfolder
S3Opts == {{}, {<<P_s3, File(P_s3, 1, Today, TRUE)>>}}
\* the supplementary folder: "A1 s.pdf" with 0..MaxPages pages, with the
\* second match "A1 t.pdf", with the directory "A1 a.pdf"
SuppOpts ==
    {{}} \cup {{<<P_A1s, File(P_A1s, n, 1, TRUE)>>} : n \in 0..MaxPages}
         \cup {{<<P_A1s, File(P_A1s, 2, 1, TRUE)>>,
                <<P_A1t, File(P_A1t, 1, 1, TRUE)>>},
               {<<P_A1s, File(P_A1s, 2, 1, TRUE)>>, <<P_A1a, Dir>>},
               {<<P_A1a, Dir>>}}

InitProcessor ==
    /\ stats = ZeroStats
    /\ pc = "none"
    /\ todo = <<>>
    /\ result = ZeroStats
    /\ runs = 0
    /\ fresh = FALSE
    /\ stats0 = ZeroStats
    /\ validated = FALSE
    /\ enumerated = <<>>
    /\ outcome = <<>>
    /\ merges = <<>>
    /\ plans = <<>>
    /\ applied = <<>>
    /\ written = <<>>
    /\ prev = None

InitFn ==
    /\ fn_arg = <<>>
    /\ fn_ret = <<>>
    /\ fn_pc = "unused"

InitWorld ==
    \E srcExists \in BOOLEAN, recursive \in BOOLEAN,
       suppCfg \in {"unset", "present", "missing"},
       appCfg \in {"unset", "file", "missing"} :
    \E outF \in {"src", "sub", "out"} \cup
                (IF suppCfg = "present" THEN {"supp"} ELSE {}) :
    \E outExists \in (IF outF = "out" THEN BOOLEAN ELSE {TRUE}) :
    \E mk \in (IF outF = "out" /\ ~outExists THEN BOOLEAN ELSE {TRUE}) :
    \E e1 \in (IF srcExists THEN S1Opts ELSE {{}}),
       e2 \in (IF srcExists THEN S2Opts ELSE {{}}),
       e3 \in (IF srcExists THEN S3Opts ELSE {{}}),
       sp \in (IF srcExists /\ suppCfg = "present" THEN SuppOpts ELSE {{}}) :
    \E r \in (IF Cardinality(e1 \cup e2 \cup e3) >= 2 THEN BOOLEAN ELSE {FALSE}) :
    \* a directory may sit where an output file is to be written
    \E taken \in (IF outF = "out" /\ outExists /\ e1 # {} THEN BOOLEAN ELSE {FALSE}) :
        /\ Cardinality(e1 \cup e2 \cup e3) <= MaxFiles
        /\ config = [source_folder |-> "src",
                     supplementary_folder |->
                         IF suppCfg = "unset" THEN None ELSE Some("supp"),
                     appendix_file |->
                         IF appCfg = "unset" THEN None ELSE Some(P_app),
                     output_folder |-> outF,
                     start_date |-> MaxDate - 1,
                     file_pattern |-> StarPdf,
                     id_pattern |-> DefaultIdPattern,
                     recursive |-> recursive]
        /\ dirs = {"app"}
                  \cup (IF srcExists THEN {"src", "sub"} ELSE {})
                  \cup (IF suppCfg = "present" THEN {"supp"} ELSE {})
                  \cup (IF outF = "out" /\ outExists THEN {"out"} ELSE {})
        /\ fs = FsOf(e1 \cup e2 \cup e3 \cup sp
                     \cup (IF srcExists THEN {<<P_dir, Dir>>} ELSE {})
                     \cup (IF taken THEN {<<P_taken, Dir>>} ELSE {})
                     \cup (IF appCfg = "file"
                           THEN {<<P_app, File(P_app, 1, 1, TRUE)>>} ELSE {}))
        /\ canMkdir = mk
        /\ rev = r

Init == InitWorld /\ InitProcessor /\ InitFn

Next == Construct \/ Call \/ Step \/ Return

Spec == Init /\ [][Next]_vars

-----------------------------------------------------------------------------
(* One call of a pure function on inputs drawn from bounded sets *)

\* no files, no processor: the state around a call of a pure function
InitNoWorld ==
    /\ config = [source_folder |-> "src", supplementary_folder |-> None,
                 appendix_file |-> None, output_folder |-> "out",
                 start_date |-> MaxDate - 1, file_pattern |-> StarPdf,
                 id_pattern |-> DefaultIdPattern, recursive |-> FALSE]
    /\ dirs = {}
    /\ fs = <<>>
    /\ canMkdir = FALSE
    /\ rev = FALSE

ReturnFn(value) ==
    /\ fn_pc = "ready"
    /\ fn_ret' = value
    /\ fn_pc' = "returned"
    /\ UNCHANGED fn_arg
    /\ UNCHANGED pipeVars

\* ---- extract_id_from_filename
ExtractAlphabet == {"A", "b", "7", " ", "\t", "."}

InitExtract ==
    /\ InitNoWorld
    /\ InitProcessor
    /\ fn_arg \in [filename : StringsUpTo(ExtractAlphabet, MaxNameLen),
                   pattern : IdPatterns]
    /\ fn_ret = None
    /\ fn_pc = "ready"

CallExtract ==
    ReturnFn(extract_id_from_filename(fn_arg.filename, fn_arg.pattern))

SpecExtract == InitExtract /\ [][CallExtract]_vars

\* ---- find_matching_files
FindIdAlphabet == {"A", ".", "*"}
FindNameAlphabet == {"A", ".", "*", "\\"}
FindTails == {<<" ", "x">> \o PdfExt, <<" ", "r">> \o PdfExt,
              <<"x">> \o PdfExt, <<" ", "x", ".", "t", "x", "t">>}
FindNames ==
    {pre \o tail : pre \in StringsUpTo(FindNameAlphabet, MaxIdLen) \ {<<>>},
                   tail \in FindTails}

RECURSIVE ListingsUpTo(_)
\* the folders of at most n entries
ListingsUpTo(n) ==
    IF n = 0 THEN {{}}
    ELSE LET fewer == ListingsUpTo(n - 1)
         IN  fewer \cup {l \cup {x} : l \in fewer, x \in FindNames}

InitFind ==
    /\ InitNoWorld
    /\ InitProcessor
    /\ \E id_value \in StringsUpTo(FindIdAlphabet, MaxIdLen) :
       \E listing \in {None} \cup {Some(l) : l \in ListingsUpTo(MaxListing)} :
           fn_arg = [folder |-> listing, id_value |-> id_value]
    /\ fn_ret = <<>>
    /\ fn_pc = "ready"

CallFind ==
    ReturnFn(find_matching_files(fn_arg.folder, fn_arg.id_value, PdfExt))

SpecFind == InitFind /\ [][CallFind]_vars

\* ---- merge_pdf_files on one entry with a page range
P_one == <<"supp", N_A1s>>

InitMerge ==
    /\ InitProcessor
    /\ config = [source_folder |-> "src", supplementary_folder |-> None,
                 appendix_file |-> None, output_folder |-> "out",
                 start_date |-> MaxDate - 1, file_pattern |-> StarPdf,
                 id_pattern |-> DefaultIdPattern, recursive |-> FALSE]
    /\ dirs = {"supp", "out"}
    /\ canMkdir = TRUE
    /\ rev = FALSE
    /\ \E n \in 0..MaxPages, start \in 0..1,
          end \in (0 - MaxPages - 1)..(MaxPages + 1) :
           /\ fs = FsOf({<<P_one, File(P_one, n, 1, TRUE)>>})
           /\ fn_arg = [path |-> P_one, pages |-> Some(<<start, end>>)]
    /\ fn_ret = [success |-> FALSE, pages |-> <<>>, args |-> <<>>]
    /\ fn_pc = "ready"

CallMerge ==
    LET m == merge_pdf_files(<<fn_arg>>, <<"out", N_A1s>>)
    IN  /\ fn_pc = "ready"
        /\ fn_ret' = m
        /\ fn_pc' = "returned"
        /\ fs' = IF m.success
                 THEN With(fs, <<"out", N_A1s>>,
                           [kind |-> "file", date |-> Today,
                            pages |-> m.pages, ok |-> TRUE])
                 ELSE fs
        /\ UNCHANGED <<fn_arg, config, dirs, canMkdir, rev, stats, pc, todo,
                       result, runs, fresh, stats0, validated, enumerated,
                       outcome, merges, plans, applied, written, prev>>

SpecMerge == InitMerge /\ [][CallMerge]_vars

-----------------------------------------------------------------------------
(* Vocabulary of the properties, stated without the program's operators *)

\* one letter followed by one or more digits
LetterDigits(t) ==
    /\ Len(t) >= 2
    /\ t[1] \in Letters
    /\ \A i \in 2..Len(t) : t[i] \in Digits

\* the regular files among the enumerated paths
RegularEnumerated == {p \in Range(enumerated) : IsFile(fs, p)}

\* the paths of this call with terminal outcome x
Ended(x) == {p \in DOMAIN outcome : outcome[p] = <<x>>}

\* the loop is about to examine a regular file
Examining == pc = "loop" /\ todo # <<>> /\ IsFile(fs, Head(todo))

\* the step hands a plan for p to merge_pdf_files
Merging(p) == p \in DOMAIN plans' /\ p \notin DOMAIN plans

-----------------------------------------------------------------------------
(* C1 *)

-----------------------------------------------------------------------------
(* C2 *)

\* C2: a regular file is counted in skipped_date exactly when its date was
\* resolved and is strictly before start_date; then nothing is merged or
\* written and no other counter moves, whatever the filename.  Otherwise
\* skipped_date does not move and the file goes on to identifier extraction:
\* it ends SkippedByFormat when its name carries no identifier and is handed
\* to the merge when it does.
C2_DateFilter ==
    [][Examining =>
          LET p == Head(todo)
              before == fs[p].date >= 1 /\ fs[p].date < config.start_date
          IN  IF before
              THEN /\ stats' = [stats EXCEPT !.skipped_date = @ + 1]
                   /\ outcome'[p] = <<"SkippedByDate">>
                   /\ merges' = merges
                   /\ written' = written
                   /\ fs' = fs
              ELSE /\ stats'.skipped_date = stats.skipped_date
                   /\ IF LetterDigits(SplitFirst(p[2]))
                      THEN p \in DOMAIN merges'
                      ELSE outcome'[p] = <<"SkippedByFormat">>
      ]_vars

\* a file with a valid identifier was skipped for its date, and a file whose
\* date could not be resolved went on to identifier extraction
C2_Witness ==
    /\ P_s1 \in Ended("SkippedByDate")
    /\ P_s2 \in Ended("SkippedByFormat")
    /\ fs[P_s2].date = 0

-----------------------------------------------------------------------------
(* C8 *)

\* merge_pdf_files cannot succeed for p: the source cannot be read, or a
\* directory sits at the output path
MergeMustFail(p) ==
    \/ ~fs[p].ok
    \/ (<<config.output_folder, p[2]>> \in DOMAIN fs
        /\ fs[<<config.output_folder, p[2]>>].kind = "dir")

\* C8: when merge_pdf_files fails for a document, errors grows by one and
\* no other counter moves, the loop goes on with the next file, and when
\* process_documents returns every enumerated regular file has its outcome.
C8_FailureIsAbsorbed ==
    [][/\ (Examining /\ Merging(Head(todo)) /\ MergeMustFail(Head(todo))) =>
              /\ stats' = [stats EXCEPT !.errors = @ + 1]
              /\ outcome'[Head(todo)] = <<"Errored">>
              /\ pc' = "loop"
              /\ todo' = Tail(todo)
       /\ (pc = "loop" /\ pc' # "loop") =>
              /\ pc' = "returned"
              /\ result' = stats
              /\ DOMAIN outcome = RegularEnumerated
      ]_vars

\* a call returned in which a merge failed and a later file was examined
C8_Witness ==
    /\ pc = "returned"
    /\ \E i, j \in 1..Len(enumerated) :
           /\ i < j
           /\ enumerated[i] \in Ended("Errored")
           /\ enumerated[j] \in DOMAIN outcome

-----------------------------------------------------------------------------
(* C9 *)

SourceMissing == config.source_folder \notin dirs
SupplementaryMissing ==
    \E f \in config.supplementary_folder : f \notin dirs
AppendixMissing ==
    \E a \in config.appendix_file : ~(a \in DOMAIN fs /\ fs[a].kind = "file")
OutputUncreatable == config.output_folder \notin dirs /\ ~canMkdir

\* C9: a call of process_documents whose configuration is invalid returns a
\* record of four zeros at once: nothing is enumerated, merged or written;
\* when the source folder, the supplementary folder or the appendix is the
\* cause, the output folder is not created.
C9_InvalidConfig ==
    [][(runs' = runs + 1
        /\ (SourceMissing \/ SupplementaryMissing \/ AppendixMissing
            \/ OutputUncreatable)) =>
          /\ pc' = "returned"
          /\ result' = ZeroStats
          /\ stats' = stats
          /\ enumerated' = <<>>
          /\ todo' = <<>>
          /\ merges' = <<>>
          /\ written' = <<>>
          /\ fs' = fs
          /\ (SourceMissing \/ SupplementaryMissing \/ AppendixMissing)
                 => dirs' = dirs
      ]_vars

\* a call returned on an invalid configuration although the source folder
\* holds a document and the output folder could have been created
C9_Witness ==
    /\ pc = "returned"
    /\ ~validated
    /\ P_s1 \in DOMAIN fs
    /\ config.output_folder \notin dirs
    /\ canMkdir

-----------------------------------------------------------------------------
(* C5 *)

\* the names in the supplementary folder that start with the identifier of
\* source path p and one space, and end in ".pdf"
SuppMatches(p) ==
    {q[2] : q \in {x \in DOMAIN fs :
                      /\ x[1] \in config.supplementary_folder
                      /\ StartsWith(x[2], SplitFirst(p[2]) \o <<" ">>)
                      /\ EndsWith(x[2], PdfExt)}}

SmallestMatch(p) ==
    <<The(config.supplementary_folder),
      CHOOSE n \in SuppMatches(p) : \A m \in SuppMatches(p) : ~StrLess(m, n)>>

SourceEntry(p) == <<[path |-> p, pages |-> None]>>
SuppEntry(p) == <<[path |-> SmallestMatch(p), pages |-> Some(<<0, -2>>)]>>
AppendixEntry ==
    IF \E a \in config.appendix_file : IsFile(fs, a)
    THEN <<[path |-> The(config.appendix_file), pages |-> None]>>
    ELSE <<>>

\* C5 as stated: the plan is the source, then the smallest supplementary
\* match with range (0, -2) whenever there is a match, then the appendix
\* when one is configured and exists.
C5_PlanAsClaimed ==
    [][\A p \in DOMAIN plans' \ DOMAIN plans :
          plans'[p] = SourceEntry(p)
                      \o (IF SuppMatches(p) # {} THEN SuppEntry(p) ELSE <<>>)
                      \o AppendixEntry
      ]_vars

\* C5 as amended: the supplementary entry is the smallest match and is
\* present only when that match is a regular file; when the smallest match
\* is a directory no supplementary entry is planned, also when a later
\* match is a regular file.  Source first, appendix last, as claimed.
C5_PlanOrder ==
    [][\A p \in DOMAIN plans' \ DOMAIN plans :
          plans'[p] = SourceEntry(p)
                      \o (IF SuppMatches(p) # {} /\ IsFile(fs, SmallestMatch(p))
                          THEN SuppEntry(p) ELSE <<>>)
                      \o AppendixEntry
      ]_vars

\* a plan of three entries was built where the supplementary folder holds
\* two matches
C5_Witness ==
    \E p \in DOMAIN plans :
        /\ Len(plans[p]) = 3
        /\ plans[p][2].path = P_A1s
        /\ plans[p][3].path = P_app
        /\ P_A1t \in DOMAIN fs

-----------------------------------------------------------------------------
(* C6 *)

\* C6: a supplementary file of N >= 1 pages that is part of a merge
\* contributes its pages 0 .. N-2 in order, every page but the last: the
\* output is the source, then those N-1 pages, then the appendix.
C6_AllButLastPage ==
    [][\A p \in DOMAIN plans' \ DOMAIN plans :
          (/\ outcome'[p] = <<"Processed">>
           /\ SuppMatches(p) # {}
           /\ IsFile(fs, SmallestMatch(p))
           /\ Len(fs[SmallestMatch(p)].pages) >= 1) =>
              LET supp == fs[SmallestMatch(p)].pages
                  appendix == IF AppendixEntry = <<>> THEN <<>>
                              ELSE fs[The(config.appendix_file)].pages
              IN  written'[<<config.output_folder, p[2]>>]
                      = fs[p].pages \o SubSeq(supp, 1, Len(supp) - 1) \o appendix
      ]_vars

-----------------------------------------------------------------------------
(* C7 *)

\* the output folder holds nothing the run reads: it is not a scanned source
\* folder and not the supplementary folder
OutputApart ==
    /\ config.output_folder # config.source_folder
    /\ config.recursive => config.output_folder # "sub"
    /\ config.output_folder \notin config.supplementary_folder

\* C7 as stated: a second run on the unchanged configuration writes the same
\* output files with the same contents and counts the same four numbers as
\* the run before it, for every valid configuration.
C7_IdempotentAsClaimed ==
    (pc = "returned" /\ prev # None) =>
        /\ written = The(prev).written
        /\ Minus(result, stats0) = The(prev).counts

\* C7 as amended: that holds when the output folder is neither the source
\* folder, nor (in a recursive scan) inside it, nor the supplementary
\* folder; the four values returned are the same when both runs were made by
\* a newly constructed DocumentProcessor.
C7_Idempotent ==
    (pc = "returned" /\ prev # None /\ OutputApart) =>
        /\ written = The(prev).written
        /\ Minus(result, stats0) = The(prev).counts
        /\ (fresh /\ The(prev).fresh) => result = The(prev).result

\* a second run by a new processor returned, with the output folder apart,
\* having written an output and counted an error and a skip as well
C7_Witness ==
    /\ pc = "returned"
    /\ prev # None
    /\ OutputApart
    /\ fresh
    /\ The(prev).fresh
    /\ DOMAIN written # {}
    /\ result.processed >= 1
    /\ result.skipped_format + result.skipped_date >= 1

-----------------------------------------------------------------------------
(* C3 *)

RECURSIVE FirstWord(_)
\* the longest prefix of s that holds no whitespace
FirstWord(s) ==
    IF s = <<>> \/ Head(s) \in Whitespace THEN <<>>
    ELSE <<Head(s)>> \o FirstWord(Tail(s))

RECURSIVE SkipTabs(_)
\* s without the whitespace other than spaces it starts with
SkipTabs(s) ==
    IF s # <<>> /\ Head(s) \in Whitespace \ {" "} THEN SkipTabs(Tail(s)) ELSE s

HasSpace(s) == \E i \in 1..Len(s) : s[i] = " "

\* C3 as stated: with the default pattern a value is returned exactly when
\* the filename holds a space and the token before its first space is one
\* letter followed by digits, and the value is that token; a filename with
\* no space yields nothing.
C3_IdAsClaimed ==
    (fn_pc = "returned" /\ fn_arg.pattern = DefaultIdPattern) =>
        LET f == fn_arg.filename
        IN  fn_ret = IF HasSpace(f) /\ LetterDigits(SplitFirst(f))
                     THEN Some(SplitFirst(f)) ELSE None

\* C3 as amended: with the default pattern a value is returned exactly when
\* the first word of the filename (leading whitespace skipped) is one letter
\* followed by digits and is followed by the end of the name or by
\* whitespace that holds a space or runs to the end; the value is that word
\* in its original case.  No space is needed: "A7" yields "A7".
C3_IdOfFirstWord ==
    (fn_pc = "returned" /\ fn_arg.pattern = DefaultIdPattern) =>
        LET g == LStrip(fn_arg.filename)
            word == FirstWord(g)
            after == SkipTabs(SubSeq(g, Len(word) + 1, Len(g)))
        IN  fn_ret = IF LetterDigits(word) /\ (after = <<>> \/ Head(after) = " ")
                     THEN Some(word) ELSE None

\* the call on a filename without a space returned the whole filename, and
\* so would a call on a filename with a space return its first word
C3_Witness ==
    /\ fn_pc = "returned"
    /\ fn_arg.pattern = DefaultIdPattern
    /\ fn_arg.filename = <<"b", "7">>
    /\ fn_ret = Some(<<"b", "7">>)

-----------------------------------------------------------------------------
(* C4 *)

\* C4: for an existing folder and a non-empty identifier the result lists,
\* in ascending order of name, exactly the entries whose name starts with
\* the identifier and one space and ends in ".pdf"; the identifier is
\* compared character for character.
C4_LiteralMatches ==
    (fn_pc = "returned" /\ fn_arg.folder # None /\ fn_arg.id_value # <<>>) =>
        /\ Range(fn_ret) =
               {n \in The(fn_arg.folder) :
                   /\ StartsWith(n, fn_arg.id_value \o <<" ">>)
                   /\ EndsWith(n, PdfExt)}
        /\ \A i, j \in 1..Len(fn_ret) : i < j => StrLess(fn_ret[i], fn_ret[j])

-----------------------------------------------------------------------------
(* C10 *)

\* C10: for a page range (start, end) with end < 0 and a source of n pages
\* with 0 <= n + end < n, the range handed to the PDF writer is
\* (start, n + end) and the pages appended are start .. n + end - 1.
C10_NegativeEndResolved ==
    LET start == The(fn_arg.pages)[1]
        end == The(fn_arg.pages)[2]
        n == Len(fs[fn_arg.path].pages)
    IN  (fn_pc = "returned" /\ end < 0 /\ 0 <= n + end /\ n + end < n) =>
            /\ fn_ret.success
            /\ fn_ret.args = <<<<start, n + end>>>>
            /\ fn_ret.pages = [i \in 1..(IF n + end > start
                                         THEN n + end - start ELSE 0)
                                  |-> fs[fn_arg.path].pages[start + i]]

-----------------------------------------------------------------------------
(* C11 *)

\* the end of a page range once a negative end is counted from the back of a
\* source of n pages
ResolvedEnd(pages, n) == IF pages[2] < 0 THEN n + pages[2] ELSE pages[2]

\* C11: for a page range (start, end) and a source of n >= 1 pages whose
\* resolved end is n or more, merge_pdf_files succeeds and appends all the
\* pages from start on, start .. n - 1, the last page included.
C11_ClampKeepsLastPage ==
    LET range == The(fn_arg.pages)
        start == range[1]
        source == fs[fn_arg.path].pages
        n == Len(source)
    IN  (fn_pc = "returned" /\ n >= 1 /\ ResolvedEnd(range, n) >= n) =>
            /\ fn_ret.success
            /\ fn_ret.pages = [i \in 1..(IF n > start THEN n - start ELSE 0)
                                  |-> source[start + i]]

-----------------------------------------------------------------------------
(* C12 *)

\* the call is on a source of one page with the range (0, -2)
OnePageAllButLast ==
    /\ Len(fs[fn_arg.path].pages) = 1
    /\ fn_arg.pages = Some(<<0, -2>>)

\* C12 as stated: for a source of one page and the range (0, -2)
\* merge_pdf_files clamps: it succeeds and appends all the pages of the
\* source, its single page.
C12_ClampsAsClaimed ==
    (fn_pc = "returned" /\ OnePageAllButLast) =>
        /\ fn_ret.success
        /\ fn_ret.pages = fs[fn_arg.path].pages

\* C12 as amended: for a source of one page and the range (0, -2) the
\* resolved end, -1, is below the page count, so merge_pdf_files does not
\* clamp; it succeeds and appends no page of the source.
C12_NoPageOfOnePage ==
    (fn_pc = "returned" /\ OnePageAllButLast) =>
        /\ ResolvedEnd(The(fn_arg.pages), 1) < 1
        /\ fn_ret.success
        /\ fn_ret.pages = <<>>
        /\ <<0, 0>> \notin Range(fn_ret.args)

\* the call on a one-page source with the range (0, -2) returned success
C12_Witness ==
    /\ fn_pc = "returned"
    /\ OnePageAllButLast
    /\ fn_ret.success

-----------------------------------------------------------------------------
(* C13 *)

CounterNames == {"processed", "skipped_format", "skipped_date", "errors"}

\* the number of files of this call in each terminal outcome
OutcomeCounts ==
    [processed |-> Cardinality(Ended("Processed")),
     skipped_format |-> Cardinality(Ended("SkippedByFormat")),
     skipped_date |-> Cardinality(Ended("SkippedByDate")),
     errors |-> Cardinality(Ended("Errored"))]

\* C13 as stated: every call of process_documents, a second call on the same
\* DocumentProcessor too, starts from four zeros and returns the counts of
\* the files of that call alone; the counters are never negative.
C13_ResetAsClaimed ==
    /\ \A k \in CounterNames : stats[k] >= 0
    /\ pc \in {"loop", "returned"} =>
           /\ stats0 = ZeroStats
           /\ pc = "returned" => result = OutcomeCounts

\* C13 as amended: the counters are never negative and no step but the
\* construction of a DocumentProcessor, which sets them to zero, lowers one.
\* process_documents does not reset them: a call on a new processor starts
\* from four zeros and returns the counts of its own files, a later call on
\* the same processor starts from what the call before returned and returns
\* that plus the counts of its own files.
C13_CountersPerProcessor ==
    [][/\ \A k \in CounterNames : stats'[k] >= 0
       /\ pc' # "idle" => \A k \in CounterNames : stats'[k] >= stats[k]
       /\ runs' = runs + 1 =>
              /\ stats' = stats
              /\ stats = IF pc = "idle" THEN ZeroStats ELSE result
       /\ (pc' = "returned" /\ (pc = "loop" \/ runs' = runs + 1)) =>
              /\ result' = stats'
              /\ Minus(result', stats0') = OutcomeCounts'
      ]_vars

\* a second call on the same processor returned more than its own files
C13_Witness ==
    /\ pc = "returned"
    /\ runs = 2
    /\ ~fresh
    /\ Total(stats0) >= 1
    /\ Total(OutcomeCounts) >= 1
    /\ result # OutcomeCounts

-----------------------------------------------------------------------------
(* C14 *)

\* the candidate token of a filename: what stands between its leading
\* whitespace and its first space after that (or its end), without the
\* whitespace at the end of that part
Candidate(f) ==
    LET g == LStrip(f)
        spaces == {i \in 1..Len(g) : g[i] = " "}
        stop == IF spaces = {} THEN Len(g) + 1
                ELSE CHOOSE i \in spaces : \A j \in spaces : i <= j
    IN  RStrip(SubSeq(g, 1, stop - 1))

\* t starts with one letter and one digit
LetterDigitAtStart(t) == Len(t) >= 2 /\ t[1] \in Letters /\ t[2] \in Digits

\* C14 as stated: for every pattern, also one written without ^ and $, a
\* value is returned only when the whole candidate token matches the
\* pattern, here when it is one letter followed by digits and nothing else.
C14_AnchoredAsClaimed ==
    (fn_pc = "returned" /\ fn_ret # None) => LetterDigits(The(fn_ret))

\* C14 as amended: the candidate token is returned exactly when the pattern
\* matches at the start of the token; the whole token has to match only
\* when the pattern itself ends in $.  With the pattern [A-Za-z]\d+ a token
\* of which a proper prefix matches is returned, whole.
C14_MatchAtStart ==
    fn_pc = "returned" =>
        LET t == Candidate(fn_arg.filename)
        IN  fn_ret = IF /\ LetterDigitAtStart(t)
                        /\ (fn_arg.pattern = DefaultIdPattern => LetterDigits(t))
                     THEN Some(t) ELSE None

\* with the pattern written without ^ and $ the call on "A7b" returned "A7b"
C14_Witness ==
    /\ fn_pc = "returned"
    /\ fn_arg.pattern = UnanchoredIdPattern
    /\ fn_arg.filename = <<"A", "7", "b">>
    /\ fn_ret = Some(<<"A", "7", "b">>)

-----------------------------------------------------------------------------
(* C15 *)

\* C15 as stated: in one call, two distinct source documents that are both
\* processed are written to two distinct output paths, and as many output
\* files are written as documents are processed, in a recursive scan too.
C15_DistinctAsClaimed ==
    pc \in {"loop", "returned"} =>
        /\ \A p, q \in Ended("Processed") : p # q => merges[p] # merges[q]
        /\ Cardinality(DOMAIN written) = Cardinality(Ended("Processed"))

\* C15 as amended: two processed source documents are written to the same
\* output path exactly when they have the same file name, so one output
\* file is written per file name among the processed documents, as many as
\* documents are processed when the scan is not recursive; each successful
\* merge leaves at its output path the file it wrote, which
\* begins with the pages of its source, whatever an earlier document of the
\* call wrote there.
C15_OnePathPerName ==
    [][/\ \A p, q \in Ended("Processed")' :
              (merges'[p] = merges'[q]) <=> (p[2] = q[2])
       /\ Cardinality(DOMAIN written')
              = Cardinality({p[2] : p \in Ended("Processed")'})
       /\ ~config.recursive =>
              Cardinality(DOMAIN written') = Cardinality(Ended("Processed")')
       /\ \A p \in DOMAIN plans' \ DOMAIN plans :
              outcome'[p] = <<"Processed">> =>
                  LET o == <<config.output_folder, p[2]>>
                  IN  /\ o \in DOMAIN written'
                      /\ fs'[o].pages = written'[o]
                      /\ SubSeq(written'[o], 1, Len(fs[p].pages)) = fs[p].pages
      ]_vars

\* a recursive scan processed two documents of the same name, one of them
\* in the subfolder, and the call wrote a single output file
C15_Witness ==
    /\ pc = "returned"
    /\ {P_s1, P_s3} \subseteq Ended("Processed")
    /\ Cardinality(DOMAIN written) = 1

=============================================================================
